---- MODULE Spec2Model ----
(***************************************************************************)
(* Property Development Feasibility Calculator (src/main.py) with its      *)
(* accounts, sessions, subscriptions and PDF export quota (src/auth.py).   *)
(* Three specifications share the variables: Spec (the calculator),        *)
(* QuotaSpec (the export quota) and AuthSpec (the authentication pages).   *)
(*                                                                         *)
(* The script reads the input widgets, runs the straight-line calculation  *)
(* pipeline (areas, cost line items, aggregation, profitability) and then  *)
(* the IRR step.  Python floats are modelled as exact rationals <<n, d>>   *)
(* in lowest terms with d > 0; the values the IRR step produces (n-th      *)
(* roots, NaN) are modelled by the symbolic reals defined further down.    *)
(***************************************************************************)
EXTENDS Integers, Sequences, FiniteSets, TLC

\* The calculator script.
VARIABLES inp, pc, out, cash_flows, irr_call, monthly_rate, irr_pct, exc,
          cost_items, significant_costs

\* The PDF export quota of one user (src/auth.py): the clock, the user's row and,
\* for each browser session of the user, the call in progress and its locals.
VARIABLES today, subscription_tier, pdf_exports_count, pdf_exports_reset_date,
          qpc, first_of_month, reset_date, export_check

\* The authentication database and one browser session (src/auth.py): the clock, the
\* tables, the Streamlit session state and the last call with its result.
VARIABLES now, utc_offset, users_table, sessions_table, users, sessions,
          session_state, ret

calcVars == <<inp, pc, out, cash_flows, irr_call, monthly_rate, irr_pct, exc,
              cost_items, significant_costs>>

quotaVars == <<today, subscription_tier, pdf_exports_count, pdf_exports_reset_date,
               qpc, first_of_month, reset_date, export_check>>

authVars == <<now, utc_offset, users_table, sessions_table, users, sessions,
              session_state, ret>>

vars == <<calcVars, quotaVars, authVars>>

(***************************************************************************)
(* Exact rational arithmetic standing for Python float arithmetic.         *)
(***************************************************************************)
Abs(x) == IF x < 0 THEN -x ELSE x

RECURSIVE GCD(_, _)
RECURSIVE InsertAt(_, _, _)
RECURSIVE SortDescending(_)
GCD(a, b) == IF b = 0 THEN a ELSE GCD(b, a % b)

LCM(a, b) == (a \div GCD(a, b)) * b

Norm(n, d) == IF n = 0 THEN <<0, 1>>
              ELSE LET g == GCD(Abs(n), d) IN <<n \div g, d \div g>>

FromInt(k) == <<k, 1>>

\* The outcome of a true division whose divisor is zero (Python raises).
ZeroDivisionError == <<1, 0>>

\* The value of a script variable that has not been assigned yet.
Unset == <<0, 0>>

\* A raised error is carried through the rest of the expression.
RAdd(a, b) == IF a[2] = 0 \/ b[2] = 0 THEN ZeroDivisionError
              ELSE LET l == LCM(a[2], b[2])
                   IN  Norm(a[1] * (l \div a[2]) + b[1] * (l \div b[2]), l)

RNeg(a) == <<-a[1], a[2]>>

RSub(a, b) == RAdd(a, RNeg(b))

RMul(a, b) == IF a[2] = 0 \/ b[2] = 0 THEN ZeroDivisionError
              ELSE LET g1 == GCD(Abs(a[1]), b[2])
                       g2 == GCD(Abs(b[1]), a[2])
                   IN  Norm((a[1] \div g1) * (b[1] \div g2),
                            (a[2] \div g2) * (b[2] \div g1))

RDiv(a, b) == IF a[2] = 0 \/ b[2] = 0 \/ b[1] = 0 THEN ZeroDivisionError
              ELSE IF b[1] > 0 THEN RMul(a, <<b[2], b[1]>>)
              ELSE RMul(a, <<-b[2], -b[1]>>)

RLt(a, b) == IF a[2] = 0 \/ b[2] = 0 THEN a[1] * b[2] < b[1] * a[2]
             ELSE LET l == LCM(a[2], b[2])
                  IN  a[1] * (l \div a[2]) < b[1] * (l \div b[2])

RGt(a, b) == RLt(b, a)

RLe(a, b) == ~RLt(b, a)

\* x / 100, the normalisation of a percentage widget value.
Pct(x) == RDiv(x, FromInt(100))

(***************************************************************************)
(* Bounds of the input domain.                                             *)
(***************************************************************************)
MaxSitePrice == 1
MaxTimeline == 3

SiteSizeChoices == {0, 1}
FsrChoices == {<<0, 1>>, <<1, 2>>}
NsaRatioChoices == {<<50, 1>>, <<100, 1>>}
NumDwellingsChoices == {1, 2}
DemolitionChoices == {0, 1}
ConstructionCostChoices == {0, 1}
LvrChoices == {<<0, 1>>, <<50, 1>>, <<100, 1>>}
SalePriceChoices == {0, 1, 20}

NoFees ==
    [consultant_costs_pct |-> <<0, 1>>, marketing_costs_pct |-> <<0, 1>>,
     agents_fees_pct |-> <<0, 1>>, gst_pct |-> <<0, 1>>,
     statutory_fees_pct |-> <<0, 1>>, legal_fees_pct |-> <<0, 1>>,
     land_holding_cost_pct |-> <<0, 1>>, interest_rate_pct |-> <<0, 1>>,
     stamp_duty_pct |-> <<0, 1>>]

\* GST and stamp duty entered above 100%.
HighFees ==
    [consultant_costs_pct |-> <<0, 1>>, marketing_costs_pct |-> <<0, 1>>,
     agents_fees_pct |-> <<0, 1>>, gst_pct |-> <<120, 1>>,
     statutory_fees_pct |-> <<0, 1>>, legal_fees_pct |-> <<0, 1>>,
     land_holding_cost_pct |-> <<0, 1>>, interest_rate_pct |-> <<0, 1>>,
     stamp_duty_pct |-> <<150, 1>>]

\* The fee percentages entered together: none, or every fee at a round rate.
FeeProfiles ==
    { NoFees,
      [consultant_costs_pct |-> <<10, 1>>, marketing_costs_pct |-> <<5, 1>>,
       agents_fees_pct |-> <<20, 1>>, gst_pct |-> <<10, 1>>,
       statutory_fees_pct |-> <<10, 1>>, legal_fees_pct |-> <<5, 1>>,
       land_holding_cost_pct |-> <<10, 1>>, interest_rate_pct |-> <<10, 1>>,
       stamp_duty_pct |-> <<5, 1>>] }

(***************************************************************************)
(* The calculation pipeline, src/main.py lines 121-164.  Each definition   *)
(* is one assignment of the script: a function of the widget values i and  *)
(* of the script variables the assignment reads.                           *)
(***************************************************************************)
gfa(i) == RMul(FromInt(i.site_size), i.fsr)

\* nsa with the ratio used without the division by 100.
nsa_undivided(i, g) == RMul(g, i.nsa_ratio)

nsa(i, g) == RMul(g, Pct(i.nsa_ratio))

avg_dwelling_size(i, n) ==
    IF i.num_dwellings > 0 THEN RDiv(n, FromInt(i.num_dwellings)) ELSE FromInt(0)

build_cost_per_sqm(i) == FromInt(i.construction_cost)

\* land_cost_per_gfa dividing without the gfa > 0 guard.
land_cost_per_gfa_unguarded(i, g) == RDiv(FromInt(i.site_price), g)

\* Construction priced on the site area instead of the gross floor area.
total_build_cost_on_site_area(i, g) ==
    RMul(FromInt(i.site_size), FromInt(i.construction_cost))

land_cost_per_gfa(i, g) ==
    IF RGt(g, FromInt(0)) THEN RDiv(FromInt(i.site_price), g) ELSE FromInt(0)

total_build_cost(i, g) == RMul(g, FromInt(i.construction_cost))

consultant_costs(i, g) ==
    RMul(RMul(g, FromInt(i.construction_cost)), Pct(i.consultant_costs_pct))

\* Revenue on the gross floor area instead of the net sellable area.
expected_revenue_on_gfa(i, n) == RMul(gfa(i), FromInt(i.avg_sale_price))

expected_revenue(i, n) == RMul(n, FromInt(i.avg_sale_price))

gst(i, rev) == RMul(rev, Pct(i.gst_pct))

price_per_dwelling(i, rev) ==
    IF i.num_dwellings > 0 THEN RDiv(rev, FromInt(i.num_dwellings)) ELSE FromInt(0)

marketing_costs(i, rev) == RMul(rev, Pct(i.marketing_costs_pct))

agents_fees(i, rev) == RMul(rev, Pct(i.agents_fees_pct))

\* stamp_duty with the percentage used without the division by 100.
stamp_duty_undivided(i) == RMul(FromInt(i.site_price), i.stamp_duty_pct)

stamp_duty(i) == RMul(FromInt(i.site_price), Pct(i.stamp_duty_pct))

site_finance_cost(i) ==
    RMul(RMul(RMul(FromInt(i.site_price), Pct(i.lvr_pct)), Pct(i.interest_rate_pct)),
         RDiv(FromInt(i.project_timeline), FromInt(12)))

\* Construction finance on the build cost alone.
building_finance_cost_build_only(i, tbc, cons) ==
    RMul(RMul(RMul(tbc, Pct(i.lvr_pct)), Pct(i.interest_rate_pct)),
         RDiv(FromInt(i.project_timeline), FromInt(24)))

building_finance_cost(i, tbc, cons) ==
    RMul(RMul(RMul(RAdd(RAdd(tbc, cons), FromInt(i.demolition_cost)),
                   Pct(i.lvr_pct)), Pct(i.interest_rate_pct)),
         RDiv(FromInt(i.project_timeline), FromInt(24)))

finance_cost(sfc, bfc) == RAdd(sfc, bfc)

annual_land_holding_rate(i) == Pct(i.land_holding_cost_pct)

project_duration_years(i) == RDiv(FromInt(i.project_timeline), FromInt(12))

total_land_holding_costs(i, rate, years) == RMul(RMul(FromInt(i.site_price), rate), years)

development_cost(i, tbc) == RAdd(FromInt(i.site_price), tbc)

\* Legal fees on the site price alone.
legal_fees_on_site_price(i, dev) == RMul(FromInt(i.site_price), Pct(i.legal_fees_pct))

legal_fees(i, dev) == RMul(dev, Pct(i.legal_fees_pct))

(***************************************************************************)
(* Aggregation and profitability, src/main.py lines 155-164.               *)
(***************************************************************************)
RECURSIVE RSum(_)
RSum(items) == IF items = <<>> THEN FromInt(0)
               ELSE RAdd(RSum(SubSeq(items, 1, Len(items) - 1)), items[Len(items)])

\* subtotal_costs with GST added a second time.
subtotal_costs_gst_twice(i, tbc, cons, mkt, agents, duty, fin, tax, legal, holding) ==
    RSum(<<FromInt(i.site_price), tbc, cons, mkt, agents, duty, fin,
           FromInt(i.demolition_cost), tax, tax, legal, holding>>)

\* subtotal_costs with the agents fees left out of the sum.
subtotal_costs_without_agents(i, tbc, cons, mkt, agents, duty, fin, tax, legal, holding) ==
    RSum(<<FromInt(i.site_price), tbc, cons, mkt, duty, fin,
           FromInt(i.demolition_cost), tax, legal, holding>>)

subtotal_costs(i, tbc, cons, mkt, agents, duty, fin, tax, legal, holding) ==
    RSum(<<FromInt(i.site_price), tbc, cons, mkt, agents, duty, fin,
           FromInt(i.demolition_cost), tax, legal, holding>>)

\* statutory_fees as the fixed point of fee = rate * (sub + fee).
statutory_fees_fixed_point(i, sub) ==
    RDiv(RMul(sub, Pct(i.statutory_fees_pct)), RSub(FromInt(1), Pct(i.statutory_fees_pct)))

statutory_fees(i, sub) == RMul(sub, Pct(i.statutory_fees_pct))

total_costs(sub, stat) == RAdd(sub, stat)

profit(rev, tc) == RSub(rev, tc)

profit_margin_pct(prof, rev) ==
    IF RGt(rev, FromInt(0)) THEN RMul(RDiv(prof, rev), FromInt(100)) ELSE FromInt(0)

\* equity_required on site price and build cost alone.
equity_required_site_and_build(i, tbc, cons) ==
    RMul(RAdd(FromInt(i.site_price), tbc), RSub(FromInt(1), Pct(i.lvr_pct)))

\* equity_required with the LVR percentage not divided by 100.
equity_required_lvr_undivided(i, tbc, cons) ==
    RMul(RAdd(RAdd(RAdd(FromInt(i.site_price), tbc), cons), FromInt(i.demolition_cost)),
         RSub(FromInt(1), i.lvr_pct))

equity_required(i, tbc, cons) ==
    RMul(RAdd(RAdd(RAdd(FromInt(i.site_price), tbc), cons), FromInt(i.demolition_cost)),
         RSub(FromInt(1), Pct(i.lvr_pct)))

\* roe_pct dividing without the equity_required > 0 guard.
roe_pct_unguarded(prof, equity) == RMul(RDiv(prof, equity), FromInt(100))

roe_pct(prof, equity) ==
    IF RGt(equity, FromInt(0)) THEN RMul(RDiv(prof, equity), FromInt(100)) ELSE FromInt(0)

\* The script variables assigned by lines 121-164, in the order of the script.
Metrics(i) ==
    LET v_gfa == gfa(i)
        v_nsa == nsa(i, v_gfa)
        v_tbc == total_build_cost(i, v_gfa)
        v_cons == consultant_costs(i, v_gfa)
        v_rev == expected_revenue(i, v_nsa)
        v_gst == gst(i, v_rev)
        v_mkt == marketing_costs(i, v_rev)
        v_agents == agents_fees(i, v_rev)
        v_duty == stamp_duty(i)
        v_sfc == site_finance_cost(i)
        v_bfc == building_finance_cost(i, v_tbc, v_cons)
        v_fin == finance_cost(v_sfc, v_bfc)
        v_hold == total_land_holding_costs(i, annual_land_holding_rate(i),
                                           project_duration_years(i))
        v_dev == development_cost(i, v_tbc)
        v_legal == legal_fees(i, v_dev)
        v_sub == subtotal_costs(i, v_tbc, v_cons, v_mkt, v_agents, v_duty, v_fin,
                                v_gst, v_legal, v_hold)
        v_stat == statutory_fees(i, v_sub)
        v_total == total_costs(v_sub, v_stat)
        v_profit == profit(v_rev, v_total)
        v_equity == equity_required(i, v_tbc, v_cons)
    IN  [gfa |-> v_gfa, nsa |-> v_nsa,
         avg_dwelling_size |-> avg_dwelling_size(i, v_nsa),
         build_cost_per_sqm |-> build_cost_per_sqm(i),
         land_cost_per_gfa |-> land_cost_per_gfa(i, v_gfa),
         total_build_cost |-> v_tbc, consultant_costs |-> v_cons,
         expected_revenue |-> v_rev, gst |-> v_gst,
         price_per_dwelling |-> price_per_dwelling(i, v_rev),
         marketing_costs |-> v_mkt, agents_fees |-> v_agents, stamp_duty |-> v_duty,
         site_finance_cost |-> v_sfc, building_finance_cost |-> v_bfc,
         finance_cost |-> v_fin, total_land_holding_costs |-> v_hold,
         development_cost |-> v_dev, legal_fees |-> v_legal,
         subtotal_costs |-> v_sub, statutory_fees |-> v_stat, total_costs |-> v_total,
         profit |-> v_profit, profit_margin_pct |-> profit_margin_pct(v_profit, v_rev),
         equity_required |-> v_equity, roe_pct |-> roe_pct(v_profit, v_equity)]

MetricNames ==
    {"gfa", "nsa", "avg_dwelling_size", "build_cost_per_sqm", "land_cost_per_gfa",
     "total_build_cost", "consultant_costs", "expected_revenue", "gst",
     "price_per_dwelling", "marketing_costs", "agents_fees", "stamp_duty",
     "site_finance_cost", "building_finance_cost", "finance_cost",
     "total_land_holding_costs", "development_cost", "legal_fees", "subtotal_costs",
     "statutory_fees", "total_costs", "profit", "profit_margin_pct", "equity_required",
     "roe_pct"}

NoMetrics == [f \in MetricNames |-> Unset]

\* A division of lines 121-164 divides by zero: the script stops there.
CalculationRaises(m) == \E f \in MetricNames : m[f] = ZeroDivisionError

(***************************************************************************)
(* The IRR step, src/main.py lines 166-181.                                *)
(*                                                                         *)
(* A real the step produces is [kind, s, q, e]:                            *)
(*   kind = "num"      the rational s;                                     *)
(*   kind = "rate"     s * (q^e - 1), q and e rational, e > 0;             *)
(*   kind = "nan"      the float NaN;                                      *)
(*   kind = "complex"  a complex number with non-zero imaginary part.      *)
(***************************************************************************)
RealNum(x) == [kind |-> "num", s |-> x, q |-> FromInt(1), e |-> FromInt(1)]

Rate(s, q, e) == [kind |-> "rate", s |-> s, q |-> q, e |-> e]

NaN == [kind |-> "nan", s |-> FromInt(0), q |-> FromInt(1), e |-> FromInt(1)]

Complex == [kind |-> "complex", s |-> FromInt(0), q |-> FromInt(1), e |-> FromInt(1)]

NoReal == [kind |-> "unset", s |-> Unset, q |-> Unset, e |-> Unset]

\* The real is a finite real number.
IsFinite(x) == x.kind \in {"num", "rate"}

\* The real equals 0: q^e = 1 for a rate (e > 0).
IsZero(x) ==
    \/ x.kind = "num" /\ x.s = FromInt(0)
    \/ x.kind = "rate" /\ (x.s = FromInt(0) \/ x.q = FromInt(1)
                           \/ (x.q = FromInt(-1) /\ x.e[2] = 1 /\ x.e[1] % 2 = 0))

annual_project_duration(i) == RDiv(FromInt(i.project_timeline), FromInt(12))

\* Line 170: [-equity_required] + [0] * (int(project_timeline) - 1) + [profit + equity_required].
CashFlows(equity, prof, timeline) ==
    <<RNeg(equity)>> \o [k \in 1..(timeline - 1) |-> FromInt(0)]
                     \o <<RAdd(prof, equity)>>

\* Line 174, npf.irr on an outlay followed by zeros and one terminal flow: the set of
\* values the library can return.  A positive terminal flow has the single root
\* (terminal / outlay)^(1/n) - 1; a negative one has no root and gives NaN; a zero
\* terminal flow gives NaN or the rate -1, depending on the library version.
NpfIrr(flows) ==
    LET n == Len(flows) - 1
        outlay == RNeg(flows[1])
        terminal == flows[Len(flows)]
        root == Rate(FromInt(1), RDiv(terminal, outlay), RDiv(FromInt(1), FromInt(n)))
    IN  IF RGt(terminal, FromInt(0)) THEN {root}
        ELSE IF terminal = FromInt(0) THEN {NaN, root}
        ELSE {NaN}

\* annual_rate as the simple multiple 12 * monthly_rate.
annual_rate_simple(m) ==
    IF m.kind = "rate" THEN Rate(RMul(m.s, FromInt(12)), m.q, m.e)
    ELSE IF m.kind = "num" THEN RealNum(RMul(m.s, FromInt(12)))
    ELSE NaN

\* Line 175: (1 + monthly_rate) ** 12 - 1.
annual_rate(m) ==
    IF m.kind = "rate" /\ m.s = FromInt(1) THEN Rate(FromInt(1), m.q, RMul(m.e, FromInt(12)))
    ELSE IF m.kind = "num" THEN Rate(FromInt(1), RAdd(FromInt(1), m.s), FromInt(12))
    ELSE NaN

\* Line 176: annual_rate * 100.
Times100(a) ==
    IF a.kind = "rate" THEN Rate(RMul(a.s, FromInt(100)), a.q, a.e)
    ELSE IF a.kind = "num" THEN RealNum(RMul(a.s, FromInt(100)))
    ELSE a

\* Line 179: ((profit / equity_required) ** (1 / annual_project_duration) - 1) * 100.
\* A negative base to a fractional power is a complex number in Python 3.
FallbackIrr(prof, equity, duration) ==
    LET q == RDiv(prof, equity)
        e == RDiv(FromInt(1), duration)
    IN  IF RLt(q, FromInt(0)) /\ e[2] # 1 THEN Complex
        ELSE Rate(FromInt(100), q, e)

(***************************************************************************)
(* The script as a state machine.                                          *)
(***************************************************************************)
\* Lines 416-428: the (name, cost) pairs of the pie chart, in the order written.
CostItems(i, m) ==
    << <<"Site Purchase", FromInt(i.site_price)>>,
       <<"Construction", m.total_build_cost>>,
       <<"Demolition", FromInt(i.demolition_cost)>>,
       <<"Consultants", m.consultant_costs>>,
       <<"Marketing", m.marketing_costs>>,
       <<"Stamp Duty", m.stamp_duty>>,
       <<"GST on Sales", m.gst>>,
       <<"Statutory Fees", m.statutory_fees>>,
       <<"Legal Fees", m.legal_fees>>,
       <<"Land Holding", m.total_land_holding_costs>>,
       <<"Finance Cost", m.finance_cost>> >>

\* The index at which a pair of cost c enters a list sorted from highest to lowest:
\* behind every pair whose cost is at least c (the sort is stable).
InsertAt(sorted, c, j) ==
    IF j > Len(sorted) \/ RLt(sorted[j][2], c) THEN j ELSE InsertAt(sorted, c, j + 1)

\* Line 431: list.sort(key=cost, reverse=True).
SortDescending(items) ==
    IF items = <<>> THEN <<>>
    ELSE LET n      == Len(items)
             sorted == SortDescending(SubSeq(items, 1, n - 1))
             j      == InsertAt(sorted, items[n][2], 1)
         IN  SubSeq(sorted, 1, j - 1) \o <<items[n]>> \o SubSeq(sorted, j, Len(sorted))

\* 1% of the total costs, the threshold of lines 440-441.
OnePercent(tc) == RMul(tc, Norm(1, 100))

\* Line 440: the pairs whose cost is above 1% of the total costs, in order.
Significant(items, tc) == SelectSeq(items, LAMBDA it : RGt(it[2], OnePercent(tc)))

\* Line 441: the sum of the costs at or below 1% of the total costs.
OtherCosts(items, tc) ==
    LET small == SelectSeq(items, LAMBDA it : RLe(it[2], OnePercent(tc)))
    IN  RSum([k \in 1..Len(small) |-> small[k][2]])

\* Lines 440-445: the slices of the pie, 'Other' appended when it is positive.
SignificantCosts(items, tc) ==
    IF RGt(OtherCosts(items, tc), FromInt(0))
    THEN Append(Significant(items, tc), <<"Other", OtherCosts(items, tc)>>)
    ELSE Significant(items, tc)

\* Line 448: the values handed to the pie chart.
CostValues(slices) == [k \in 1..Len(slices) |-> slices[k][2]]

\* Nobody is on the authentication page.
NoAuthCalls ==
    /\ now = 0
    /\ utc_offset = 0
    /\ users_table = "absent"
    /\ sessions_table = FALSE
    /\ users = <<>>
    /\ sessions = <<>>
    /\ session_state = <<>>
    /\ ret = <<>>

\* No user is exporting: the state of the quota variables while the calculator runs.
NoQuotaCalls ==
    /\ today = 0
    /\ subscription_tier = "free"
    /\ pdf_exports_count = 0
    /\ pdf_exports_reset_date = 0
    /\ qpc = <<>>
    /\ first_of_month = <<>>
    /\ reset_date = <<>>
    /\ export_check = <<>>

\* The widget values as the script reads them.
Widgets(sp, ss, f, nr, nd, dc, cc, lv, tl, ap, fees) ==
    [site_price |-> sp, site_size |-> ss, fsr |-> f, nsa_ratio |-> nr,
     num_dwellings |-> nd, demolition_cost |-> dc, construction_cost |-> cc,
     consultant_costs_pct |-> fees.consultant_costs_pct,
     marketing_costs_pct |-> fees.marketing_costs_pct,
     agents_fees_pct |-> fees.agents_fees_pct, gst_pct |-> fees.gst_pct,
     statutory_fees_pct |-> fees.statutory_fees_pct,
     legal_fees_pct |-> fees.legal_fees_pct,
     land_holding_cost_pct |-> fees.land_holding_cost_pct,
     lvr_pct |-> lv, interest_rate_pct |-> fees.interest_rate_pct,
     project_timeline |-> tl, avg_sale_price |-> ap,
     stamp_duty_pct |-> fees.stamp_duty_pct]

\* The min_value and max_value of the number_input widgets, lines 37-118.
WidgetAccepts(i) ==
    /\ i.site_price >= 0
    /\ i.site_size >= 0
    /\ RLe(FromInt(0), i.fsr)
    /\ RLe(FromInt(50), i.nsa_ratio) /\ RLe(i.nsa_ratio, FromInt(100))
    /\ i.num_dwellings >= 1
    /\ i.demolition_cost >= 0
    /\ i.construction_cost >= 0
    /\ RLe(FromInt(0), i.consultant_costs_pct)
    /\ RLe(FromInt(0), i.marketing_costs_pct)
    /\ RLe(FromInt(0), i.agents_fees_pct)
    /\ RLe(FromInt(0), i.gst_pct)
    /\ RLe(FromInt(0), i.statutory_fees_pct)
    /\ RLe(FromInt(0), i.legal_fees_pct)
    /\ RLe(FromInt(0), i.land_holding_cost_pct)
    /\ RLe(FromInt(0), i.lvr_pct) /\ RLe(i.lvr_pct, FromInt(100))
    /\ RLe(FromInt(0), i.interest_rate_pct)
    /\ i.project_timeline >= 1
    /\ i.avg_sale_price >= 0
    /\ RLe(FromInt(0), i.stamp_duty_pct)

\* Small values of every widget, with the fees of either profile.
GridInputs(i) ==
    \E sp \in 0..MaxSitePrice, ss \in SiteSizeChoices, f \in FsrChoices,
       nr \in NsaRatioChoices, nd \in NumDwellingsChoices, dc \in DemolitionChoices,
       cc \in ConstructionCostChoices, lv \in LvrChoices, tl \in 1..MaxTimeline,
       ap \in SalePriceChoices, fees \in FeeProfiles :
       i = Widgets(sp, ss, f, nr, nd, dc, cc, lv, tl, ap, fees)

\* The site of the end-to-end scenario of spec section 8: 613 sqm at FSR 0.7, 85%
\* sellable, built at 2500 and sold at 2800 per sqm; no fees.
ScenarioInputs(i) ==
    \E sp \in 0..MaxSitePrice, nd \in NumDwellingsChoices, dc \in DemolitionChoices,
       lv \in LvrChoices, tl \in 1..MaxTimeline :
       i = Widgets(sp, 613, <<7, 10>>, <<85, 1>>, nd, dc, 2500, lv, tl, 2800, NoFees)

\* Percentages above 100 in widgets that have no max_value.
HighRateInputs(i) ==
    \E sp \in 0..MaxSitePrice, ss \in SiteSizeChoices, f \in FsrChoices,
       lv \in LvrChoices, tl \in 1..MaxTimeline, ap \in SalePriceChoices :
       i = Widgets(sp, ss, f, <<100, 1>>, 1, 0, 1, lv, tl, ap, HighFees)

\* The widgets have been read (lines 37-118).
Init ==
    /\ \/ GridInputs(inp)
       \/ ScenarioInputs(inp)
       \/ HighRateInputs(inp)
    /\ WidgetAccepts(inp)
    /\ pc = "inputs"
    /\ out = NoMetrics
    /\ cash_flows = <<>>
    /\ irr_call = "none"
    /\ monthly_rate = NoReal
    /\ irr_pct = NoReal
    /\ exc = "none"
    /\ cost_items = <<>>
    /\ significant_costs = <<>>
    /\ NoQuotaCalls
    /\ NoAuthCalls

\* Lines 121-164.
Calculate ==
    /\ pc = "inputs"
    /\ LET m == Metrics(inp)
       IN  IF CalculationRaises(m)
           THEN /\ pc' = "raised"
                /\ exc' = "ZeroDivisionError"
                /\ out' = out
           ELSE /\ pc' = "calculated"
                /\ exc' = exc
                /\ out' = m
    /\ UNCHANGED <<inp, cash_flows, irr_call, monthly_rate, irr_pct, cost_items, significant_costs>>
    /\ UNCHANGED <<quotaVars, authVars>>

\* The guard of line 168 without the equity_required > 0 test.
IrrGuardDurationOnly == RGt(annual_project_duration(inp), FromInt(0))

\* Line 168: annual_project_duration > 0 and equity_required > 0.
IrrGuard ==
    /\ RGt(annual_project_duration(inp), FromInt(0))
    /\ RGt(out.equity_required, FromInt(0))

\* Lines 180-181: the else branch.
IrrSkipped ==
    /\ pc = "calculated"
    /\ ~IrrGuard
    /\ irr_pct' = RealNum(FromInt(0))
    /\ irr_call' = "skipped"
    /\ pc' = "done"
    /\ UNCHANGED <<inp, out, cash_flows, monthly_rate, exc, cost_items, significant_costs>>
    /\ UNCHANGED <<quotaVars, authVars>>

\* Lines 169-176: the try block runs to its end.
IrrTry ==
    /\ pc = "calculated"
    /\ IrrGuard
    /\ cash_flows' = CashFlows(out.equity_required, out.profit, inp.project_timeline)
    /\ \E r \in NpfIrr(cash_flows') :
          /\ monthly_rate' = r
          /\ irr_pct' = Times100(annual_rate(r))
    /\ irr_call' = "returned"
    /\ pc' = "done"
    /\ UNCHANGED <<inp, out, exc, cost_items, significant_costs>>
    /\ UNCHANGED <<quotaVars, authVars>>

\* Lines 169-179: npf.irr raises and the bare except computes the fallback.
IrrExcept ==
    /\ pc = "calculated"
    /\ IrrGuard
    /\ cash_flows' = CashFlows(out.equity_required, out.profit, inp.project_timeline)
    /\ irr_pct' = FallbackIrr(out.profit, out.equity_required, annual_project_duration(inp))
    /\ irr_call' = "raised"
    /\ pc' = "done"
    /\ UNCHANGED <<inp, out, monthly_rate, exc, cost_items, significant_costs>>
    /\ UNCHANGED <<quotaVars, authVars>>

\* Lines 416-448: the cost breakdown of the pie chart.
CostBreakdown ==
    /\ pc = "done"
    /\ cost_items' = SortDescending(CostItems(inp, out))
    /\ significant_costs' = SignificantCosts(cost_items', out.total_costs)
    /\ pc' = "charted"
    /\ UNCHANGED <<inp, out, cash_flows, irr_call, monthly_rate, irr_pct, exc>>
    /\ UNCHANGED <<quotaVars, authVars>>

Next == Calculate \/ IrrSkipped \/ IrrTry \/ IrrExcept \/ CostBreakdown

Spec == Init /\ [][Next]_vars

(***************************************************************************)
(* Properties of the calculation pipeline.                                 *)
(***************************************************************************)
\* Lines 121-164 have run to their end.
Calculated == pc \in {"calculated", "done", "charted"}

Zero == FromInt(0)

IsPositive(x) == RGt(x, FromInt(0))

\* The twelve cost line items the results table reports (lines 188-249).
CostLineItems ==
    <<FromInt(inp.site_price), out.total_build_cost, FromInt(inp.demolition_cost),
      out.consultant_costs, out.marketing_costs, out.agents_fees, out.stamp_duty,
      out.gst, out.statutory_fees, out.legal_fees, out.total_land_holding_costs,
      out.finance_cost>>

\* C1: total_costs is the sum of the twelve reported cost line items (site purchase
\* price, total build cost, demolition, consultant costs, marketing costs, agents
\* fees, stamp duty, GST, statutory fees, legal fees, land holding costs, finance
\* cost), each counted once.
C1_TotalCostAdditivity ==
    Calculated => out.total_costs = RSum(CostLineItems)

\* C1 witness: the pipeline has run on inputs where every one of the twelve line
\* items is positive.
C1_Witness ==
    /\ Calculated
    /\ \A k \in 1..Len(CostLineItems) : IsPositive(CostLineItems[k])

\* The eleven items of the subtotal: every cost line item except the statutory fees.
SubtotalItems ==
    <<FromInt(inp.site_price), out.total_build_cost, FromInt(inp.demolition_cost),
      out.consultant_costs, out.marketing_costs, out.agents_fees, out.stamp_duty,
      out.gst, out.legal_fees, out.total_land_holding_costs, out.finance_cost>>

\* C2: the statutory fees are resolved in two passes: subtotal_costs is the sum of
\* all the other cost items, statutory_fees = subtotal_costs * statutory rate,
\* total_costs = subtotal_costs + statutory_fees; the fee is not the fixed point of
\* fee = rate * (subtotal + fee).
C2_TwoPassStatutoryFees ==
    Calculated =>
        /\ out.subtotal_costs = RSum(SubtotalItems)
        /\ out.statutory_fees = RMul(out.subtotal_costs, Pct(inp.statutory_fees_pct))
        /\ out.total_costs = RAdd(out.subtotal_costs, out.statutory_fees)
        /\ (IsPositive(inp.statutory_fees_pct) /\ IsPositive(out.subtotal_costs)
              => out.statutory_fees #
                   RMul(Pct(inp.statutory_fees_pct),
                        RAdd(out.subtotal_costs, out.statutory_fees)))

\* C2 witness: the pipeline has run with a positive statutory rate on a positive
\* subtotal, where the two-pass fee and the fixed point differ.
C2_Witness ==
    /\ Calculated
    /\ IsPositive(inp.statutory_fees_pct)
    /\ IsPositive(out.subtotal_costs)
    /\ IsPositive(out.statutory_fees)

\* The cost line items other than GST, the statutory fees among them.
NonGstItems ==
    <<FromInt(inp.site_price), out.total_build_cost, FromInt(inp.demolition_cost),
      out.consultant_costs, out.marketing_costs, out.agents_fees, out.stamp_duty,
      out.statutory_fees, out.legal_fees, out.total_land_holding_costs,
      out.finance_cost>>

\* C3: profit = expected_revenue - total_costs with GST deducted exactly once: GST
\* is inside total_costs once, and the revenue the profit starts from is the gross
\* revenue NSA * sale price, not netted of GST.
C3_ProfitGstOnce ==
    Calculated =>
        /\ out.profit = RSub(out.expected_revenue, out.total_costs)
        /\ out.expected_revenue = RMul(out.nsa, FromInt(inp.avg_sale_price))
        /\ RSub(out.total_costs, RSum(NonGstItems)) = out.gst
        /\ out.gst = RMul(out.expected_revenue, Pct(inp.gst_pct))

\* C3 witness: the pipeline has run on inputs with a positive GST amount.
C3_Witness ==
    /\ Calculated
    /\ IsPositive(out.gst)
    /\ out.profit # RSub(out.expected_revenue, RSum(NonGstItems))

\* The capital cost the loan is drawn against (lines 141, 163 and 511).
CapitalCost ==
    RSum(<<FromInt(inp.site_price), out.total_build_cost, out.consultant_costs,
           FromInt(inp.demolition_cost)>>)

\* C4 as stated: equity_required = total_costs - total_loan, where total_loan is
\* (site_price + build cost) * LVR or a fraction (between 0 and 1) of the build cost
\* alone.
C4_EquityIsTotalCostsMinusLoan ==
    Calculated =>
        LET loan == RSub(out.total_costs, out.equity_required)
        IN  \/ loan = RMul(RAdd(FromInt(inp.site_price), out.total_build_cost),
                           Pct(inp.lvr_pct))
            \/ RLe(Zero, loan) /\ RLe(loan, out.total_build_cost)

\* C4 amended: equity_required = capital cost - total_loan, where the capital cost is
\* site_price + total_build_cost + consultant_costs + demolition_cost and
\* total_loan = capital cost * LVR.
C4_EquityIsCapitalCostMinusLoan ==
    Calculated =>
        out.equity_required = RSub(CapitalCost, RMul(CapitalCost, Pct(inp.lvr_pct)))

\* C4 witness: the pipeline has run with a loan and an equity that are both positive,
\* consultant and demolition costs in the capital cost, and total costs above it.
C4_Witness ==
    /\ Calculated
    /\ IsPositive(out.equity_required)
    /\ IsPositive(RMul(CapitalCost, Pct(inp.lvr_pct)))
    /\ IsPositive(out.consultant_costs)
    /\ inp.demolition_cost > 0
    /\ RGt(out.total_costs, CapitalCost)

\* C5: roe = profit / equity_required * 100 when equity_required > 0, and roe is
\* exactly 0, with no division and no error, when equity_required <= 0.
C5_RoeZeroGuard ==
    /\ pc # "raised"
    /\ Calculated =>
         IF IsPositive(out.equity_required)
         THEN out.roe_pct = RMul(RDiv(out.profit, out.equity_required), FromInt(100))
         ELSE out.roe_pct = Zero

\* C5 witness: the pipeline has run with no equity required and a non-zero profit.
C5_Witness ==
    /\ Calculated
    /\ RLe(out.equity_required, Zero)
    /\ out.profit # Zero
    /\ out.roe_pct = Zero

\* C6: the degenerate denominators raise nothing and give 0: land cost per GFA is 0
\* when GFA = 0 (site_size = 0 or FSR = 0) and site_price / GFA otherwise; profit
\* margin is 0 when the expected revenue is 0 and profit / revenue * 100 otherwise.
C6_ZeroGuards ==
    /\ pc # "raised"
    /\ Calculated =>
         /\ (out.gfa = Zero <=> (inp.site_size = 0 \/ inp.fsr = Zero))
         /\ IF out.gfa = Zero
            THEN out.land_cost_per_gfa = Zero
            ELSE out.land_cost_per_gfa = RDiv(FromInt(inp.site_price), out.gfa)
         /\ IF out.expected_revenue = Zero
            THEN out.profit_margin_pct = Zero
            ELSE out.profit_margin_pct =
                     RMul(RDiv(out.profit, out.expected_revenue), FromInt(100))

\* C6 witness: the pipeline has run on a site with a price, no floor area and no
\* revenue, at a loss.
C6_Witness ==
    /\ Calculated
    /\ out.gfa = Zero
    /\ inp.site_price > 0
    /\ out.expected_revenue = Zero
    /\ out.profit # Zero
    /\ out.land_cost_per_gfa = Zero
    /\ out.profit_margin_pct = Zero

\* Root-finding was attempted: npf.irr was called on a cash-flow list.
RootFindingAttempted == irr_call \in {"returned", "raised"}

\* C7: the IRR step gives exactly 0 without attempting root-finding whenever
\* equity_required <= 0 or the project period is <= 0 months, whatever the profit.
C7_IrrSkippedIsZero ==
    (pc = "done" /\ (RLe(out.equity_required, Zero) \/ inp.project_timeline <= 0)) =>
        /\ irr_pct = RealNum(Zero)
        /\ ~RootFindingAttempted
        /\ cash_flows = <<>>

\* C7 witness: the IRR step has finished on a project with no equity required and a
\* non-zero profit.
C7_Witness ==
    /\ pc = "done"
    /\ RLe(out.equity_required, Zero)
    /\ out.profit # Zero
    /\ irr_call = "skipped"

\* A sufficient condition for the real x to be above 500 in magnitude: x is
\* s * (q^e - 1) with s >= 100, q > 6 and e >= 1.
Above500(x) ==
    /\ x.kind = "rate"
    /\ RLe(FromInt(100), x.s)
    /\ RGt(x.q, FromInt(6))
    /\ RLe(FromInt(1), x.e)

\* C8 as stated: whenever the root-finder raises, returns NaN, or returns a rate whose
\* annualized magnitude is above 500%, the reported IRR is 0.
C8_IrrFailureReportsZero ==
    (/\ pc = "done"
     /\ \/ irr_call = "raised"
        \/ irr_call = "returned" /\ ~IsFinite(monthly_rate)
        \/ irr_call = "returned" /\ Above500(Times100(annual_rate(monthly_rate))))
    => IsZero(irr_pct)

\* C9: when root-finding is attempted the cash-flow list has project_timeline + 1
\* entries, -equity_required first, zeros between, profit + equity_required last; the
\* monthly rate r the root-finder returns makes the net present value zero,
\* (1 + r)^timeline = (profit + equity) / equity, and is reported as
\* ((1 + r)^12 - 1) * 100.
C9_CashFlowsAndAnnualization ==
    (pc = "done" /\ RootFindingAttempted) =>
        /\ IsPositive(out.equity_required) /\ inp.project_timeline >= 1
        /\ Len(cash_flows) = inp.project_timeline + 1
        /\ cash_flows[1] = RNeg(out.equity_required)
        /\ \A k \in 2..inp.project_timeline : cash_flows[k] = Zero
        /\ cash_flows[inp.project_timeline + 1] = RAdd(out.profit, out.equity_required)
        /\ (irr_call = "returned" /\ IsFinite(monthly_rate)) =>
              /\ monthly_rate.kind = "rate" /\ monthly_rate.s = FromInt(1)
              /\ monthly_rate.q =
                     RDiv(RAdd(out.profit, out.equity_required), out.equity_required)
              /\ RMul(monthly_rate.e, FromInt(inp.project_timeline)) = FromInt(1)
              /\ irr_pct.kind = "rate" /\ irr_pct.s = FromInt(100)
              /\ irr_pct.q = monthly_rate.q
              /\ irr_pct.e = RMul(FromInt(12), monthly_rate.e)

\* C9 witness: the root-finder has returned a rate for a project of three months or
\* more, so the cash-flow list has zeros between the outlay and the terminal flow.
C9_Witness ==
    /\ pc = "done"
    /\ irr_call = "returned"
    /\ IsFinite(monthly_rate)
    /\ inp.project_timeline >= 3
    /\ out.profit # Zero

\* C10 as stated: the pipeline runs to its end without an exception escaping, and the
\* IRR it reports is a finite real number.
C10_PipelineCompletesIrrFinite ==
    /\ pc # "raised"
    /\ exc = "none"
    /\ pc = "done" => IsFinite(irr_pct)

(***************************************************************************)
(* Stamp duty.                                                             *)
(***************************************************************************)
\* C11: stamp duty is site_price * stamp_duty_rate; hence the duty on a price of 0 is
\* 0 and, the rate fixed, a higher site price never has a lower duty.
C11_FlatRateStampDuty ==
    Calculated =>
        /\ out.stamp_duty = RMul(FromInt(inp.site_price),
                                 RDiv(inp.stamp_duty_pct, FromInt(100)))
        /\ stamp_duty([inp EXCEPT !.site_price = 0]) = Zero
        /\ \A p \in 0..MaxSitePrice :
              p >= inp.site_price =>
                  RLe(out.stamp_duty, stamp_duty([inp EXCEPT !.site_price = p]))

\* C11 witness: the pipeline has run with a positive rate on a positive site price, so
\* the duty is positive and above the duty on a price of 0.
C11_Witness ==
    /\ Calculated
    /\ inp.site_price > 0
    /\ IsPositive(inp.stamp_duty_pct)
    /\ IsPositive(out.stamp_duty)

\* The progressive schedule of spec section 4.1: <<upper bound, base, marginal rate,
\* excess base>>, the last bracket unbounded.
DutyBrackets ==
    << <<17000, 0, <<125, 10000>>, 0>>,
       <<36000, 212, <<15, 1000>>, 17000>>,
       <<97000, 497, <<175, 10000>>, 36000>>,
       <<364000, 1564, <<35, 1000>>, 97000>>,
       <<1212000, 10909, <<45, 1000>>, 364000>> >>

TopBracket == <<0, 49069, <<55, 1000>>, 1212000>>

CeilingTo100(x) == ((x + 99) \div 100) * 100

\* The bracket of a price: the first whose upper bound the price does not exceed.
BracketOf(price) ==
    IF \E k \in 1..Len(DutyBrackets) : price <= DutyBrackets[k][1]
    THEN DutyBrackets[CHOOSE k \in 1..Len(DutyBrackets) :
                          /\ price <= DutyBrackets[k][1]
                          /\ \A j \in 1..(k - 1) : price > DutyBrackets[j][1]]
    ELSE TopBracket

\* base + marginal rate * (price - excess base, rounded up to the next 100).
ProgressiveDuty(price) ==
    LET b == BracketOf(price)
    IN  RAdd(FromInt(b[2]),
             RMul(Norm(b[3][1], b[3][2]), FromInt(CeilingTo100(price - b[4]))))

BracketTestPrices == {0, 17000, 500000}

\* The stamp duty settings that could select the schedule: the rate entered, and the
\* flat rates that give the schedule's duty at one of the test prices.
StampDutySettings ==
    {inp.stamp_duty_pct} \cup
    {RDiv(RMul(ProgressiveDuty(p), FromInt(100)), FromInt(p)) :
        p \in BracketTestPrices \ {0}}

\* C12 as stated: the progressive-bracket policy can be selected: some stamp duty
\* setting makes the duty base + marginal rate * (excess rounded up to 100) at every
\* price, 17,029 at 500,000 and 0 at 0.
C12_ProgressiveStrategySelectable ==
    Calculated =>
        /\ ProgressiveDuty(500000) = FromInt(17029)
        /\ \E setting \in StampDutySettings :
              \A p \in BracketTestPrices :
                  stamp_duty([inp EXCEPT !.site_price = p, !.stamp_duty_pct = setting])
                      = ProgressiveDuty(p)

(***************************************************************************)
(* Areas.                                                                  *)
(***************************************************************************)
\* C13: GFA = site_size * FSR, NSA = GFA * nsa_ratio (the percentage over 100), and
\* avg_dwelling_size * num_dwellings = NSA, for every site size >= 0, FSR >= 0 and
\* dwelling count >= 1.
C13_AreaIdentities ==
    Calculated =>
        /\ out.gfa = RMul(FromInt(inp.site_size), inp.fsr)
        /\ out.nsa = RDiv(RMul(out.gfa, inp.nsa_ratio), FromInt(100))
        /\ RMul(out.avg_dwelling_size, FromInt(inp.num_dwellings)) = out.nsa

\* C13 witness: the pipeline has run on a site with floor area, a sellable ratio below
\* 100% and more than one dwelling.
C13_Witness ==
    /\ Calculated
    /\ IsPositive(out.nsa)
    /\ out.nsa # out.gfa
    /\ inp.num_dwellings >= 2

\* The inputs of the end-to-end scenario are the ones entered.
IsScenario ==
    /\ inp.site_size = 613
    /\ inp.fsr = <<7, 10>>
    /\ inp.nsa_ratio = <<85, 1>>
    /\ inp.construction_cost = 2500
    /\ inp.avg_sale_price = 2800

\* C14: with site_size 613, FSR 0.7, NSA ratio 85%, construction at 2500 per sqm and
\* sales at 2800 per sqm the pipeline yields GFA 429.1, NSA 364.735, total build cost
\* 1,072,750 and expected revenue 1,021,258 (exact values; the floats of the script
\* differ from them by rounding only).
C14_EndToEndScenario ==
    (Calculated /\ IsScenario) =>
        /\ out.gfa = Norm(4291, 10)
        /\ out.nsa = Norm(364735, 1000)
        /\ out.total_build_cost = FromInt(1072750)
        /\ out.expected_revenue = FromInt(1021258)

C14_Witness ==
    /\ pc = "done"
    /\ IsScenario
    /\ out.expected_revenue = FromInt(1021258)
    /\ out.profit = RSub(FromInt(1021258), out.total_costs)

\* Construction costs per sqm to compare with the one entered.
ConstructionCostsAbove ==
    {c \in ConstructionCostChoices \cup {inp.construction_cost + 1} : c > inp.construction_cost}

\* The metrics of the same inputs with another construction cost per sqm.
WithConstructionCost(c) == Metrics([inp EXCEPT !.construction_cost = c])

\* C15 as stated: a larger construction cost per sqm gives a strictly larger
\* total_build_cost and a strictly smaller profit, all else fixed.
C15_StrictMonotonicity ==
    Calculated =>
        \A c \in ConstructionCostsAbove :
            /\ RLt(out.total_build_cost, WithConstructionCost(c).total_build_cost)
            /\ RLt(WithConstructionCost(c).profit, out.profit)

\* C15, amended: a larger construction cost per sqm gives a strictly larger
\* total_build_cost and a strictly smaller profit when the gross floor area is
\* positive, and leaves both unchanged when the gross floor area is zero.
C15_MonotonicityOnPositiveGfa ==
    Calculated =>
        \A c \in ConstructionCostsAbove :
            IF IsPositive(out.gfa)
            THEN /\ RLt(out.total_build_cost, WithConstructionCost(c).total_build_cost)
                 /\ RLt(WithConstructionCost(c).profit, out.profit)
            ELSE /\ WithConstructionCost(c).total_build_cost = out.total_build_cost
                 /\ WithConstructionCost(c).profit = out.profit

C15_Witness ==
    /\ Calculated
    /\ IsPositive(out.gfa)
    /\ \E c \in ConstructionCostsAbove :
          /\ RLt(out.total_build_cost, WithConstructionCost(c).total_build_cost)
          /\ RLt(WithConstructionCost(c).profit, out.profit)
          /\ RLt(WithConstructionCost(c).profit, Zero)

\* base x LVR x interest rate x period / months, the interest on a drawn loan.
LoanInterest(base, months) ==
    RDiv(RMul(RMul(RMul(base, Pct(inp.lvr_pct)), Pct(inp.interest_rate_pct)),
              FromInt(inp.project_timeline)),
         FromInt(months))

\* C16 as stated: finance_cost = site finance + construction finance with site
\* finance = site_price x LVR x interest x period/12 and construction finance =
\* build cost alone x LVR x interest x period/24.
C16_ConstructionFinanceOnBuildCost ==
    Calculated =>
        /\ out.site_finance_cost = LoanInterest(FromInt(inp.site_price), 12)
        /\ out.building_finance_cost = LoanInterest(out.total_build_cost, 24)
        /\ out.finance_cost = RAdd(out.site_finance_cost, out.building_finance_cost)

\* C16, amended: finance_cost = site finance + construction finance with site
\* finance = site_price x LVR x interest x period/12 and construction finance =
\* (total_build_cost + consultant_costs + demolition_cost) x LVR x interest x period/24.
C16_ConstructionFinanceOnBuildingCosts ==
    Calculated =>
        /\ out.site_finance_cost = LoanInterest(FromInt(inp.site_price), 12)
        /\ out.building_finance_cost =
              LoanInterest(RAdd(RAdd(out.total_build_cost, out.consultant_costs),
                                FromInt(inp.demolition_cost)), 24)
        /\ out.finance_cost = RAdd(out.site_finance_cost, out.building_finance_cost)

C16_Witness ==
    /\ Calculated
    /\ IsPositive(out.site_finance_cost)
    /\ IsPositive(out.total_build_cost)
    /\ IsPositive(out.consultant_costs)
    /\ inp.demolition_cost > 0
    /\ RLt(LoanInterest(out.total_build_cost, 24), out.building_finance_cost)
    /\ out.finance_cost = RAdd(out.site_finance_cost, out.building_finance_cost)

\* The percentage widgets, whose values the calculation divides by 100.
RateFields ==
    {"nsa_ratio", "consultant_costs_pct", "marketing_costs_pct", "agents_fees_pct",
     "gst_pct", "statutory_fees_pct", "legal_fees_pct", "land_holding_cost_pct",
     "lvr_pct", "interest_rate_pct", "stamp_duty_pct"}

\* The widgets holding an amount of money or an area.
AmountFields ==
    {"site_price", "site_size", "demolition_cost", "construction_cost", "avg_sale_price"}

\* C17: every input the calculation receives satisfies the ProjectInputs invariant:
\* every rate is in [0,1] after division by 100, every amount and area is >= 0, the
\* dwelling count is >= 1 and the project period is >= 1 month.
C17_ProjectInputsInvariant ==
    Calculated =>
        /\ \A r \in RateFields : RLe(Zero, Pct(inp[r])) /\ RLe(Pct(inp[r]), FromInt(1))
        /\ \A a \in AmountFields : inp[a] >= 0
        /\ RLe(Zero, inp.fsr)
        /\ inp.num_dwellings >= 1
        /\ inp.project_timeline >= 1

\* C18: the rate-based line items are computed from their stated bases: agents fees,
\* GST and marketing on the revenue, consultant costs on the total build cost, legal
\* fees on site price + total build cost, land holding on the site price per year of
\* the project period.
C18_RateBasedItems ==
    Calculated =>
        /\ out.agents_fees = RMul(out.expected_revenue, Pct(inp.agents_fees_pct))
        /\ out.gst = RMul(out.expected_revenue, Pct(inp.gst_pct))
        /\ out.marketing_costs = RMul(out.expected_revenue, Pct(inp.marketing_costs_pct))
        /\ out.consultant_costs = RMul(out.total_build_cost, Pct(inp.consultant_costs_pct))
        /\ out.legal_fees =
              RMul(RAdd(FromInt(inp.site_price), out.total_build_cost), Pct(inp.legal_fees_pct))
        /\ out.total_land_holding_costs =
              RDiv(RMul(RMul(FromInt(inp.site_price), Pct(inp.land_holding_cost_pct)),
                        FromInt(inp.project_timeline)),
                   FromInt(12))

C18_Witness ==
    /\ Calculated
    /\ IsPositive(out.agents_fees)
    /\ IsPositive(out.gst)
    /\ IsPositive(out.marketing_costs)
    /\ IsPositive(out.consultant_costs)
    /\ IsPositive(out.total_build_cost)
    /\ inp.site_price > 0
    /\ IsPositive(out.legal_fees)
    /\ IsPositive(out.total_land_holding_costs)
    /\ inp.project_timeline > 1

\* C19: the values of the cost-distribution chart, below-1% items folded into
\* 'Other', sum to total_costs: every cost of total_costs appears in the chart.
C19_ChartSumsToTotalCosts ==
    pc = "charted" => RSum(CostValues(significant_costs)) = out.total_costs

\* The last cash flow of the list handed to npf.irr.
TerminalCashFlow == cash_flows[Len(cash_flows)]

\* C20: whenever root-finding is attempted the terminal cash flow profit +
\* equity_required is strictly positive, so the list has exactly one sign change,
\* also when the loss is at least the equity invested.
C20_TerminalCashFlowPositive ==
    RootFindingAttempted =>
        /\ TerminalCashFlow = RAdd(out.profit, out.equity_required)
        /\ IsPositive(TerminalCashFlow)
        /\ RLt(cash_flows[1], Zero)
        /\ \A k \in 2..(Len(cash_flows) - 1) : cash_flows[k] = Zero

\* Lines 508-513: the amount the Debt Financing metric shows, before formatting.
DebtFinancing(i, m) ==
    RMul(RAdd(RAdd(RAdd(FromInt(i.site_price), m.total_build_cost), m.consultant_costs),
              FromInt(i.demolition_cost)),
         Pct(i.lvr_pct))

\* The ',.0f' format of line 511: the nearest whole number, a tie going to the even one.
RoundHalfEven(x) ==
    LET fl   == x[1] \div x[2]
        rem2 == 2 * (x[1] - fl * x[2])
    IN  IF rem2 < x[2] THEN fl
        ELSE IF rem2 > x[2] THEN fl + 1
        ELSE IF fl % 2 = 0 THEN fl ELSE fl + 1

\* C21: for every input within the widget bounds equity_required >= 0, and
\* equity_required plus the debt financing of the Debt Financing metric equals
\* site_price + total_build_cost + consultant_costs + demolition_cost; the metric
\* shows that amount to the nearest whole dollar.
C21_EquityPlusDebtIsCapitalCost ==
    Calculated =>
        /\ RLe(Zero, out.equity_required)
        /\ RAdd(out.equity_required, DebtFinancing(inp, out)) = CapitalCost
        /\ RLe(Zero, DebtFinancing(inp, out))
        /\ LET shown == FromInt(RoundHalfEven(DebtFinancing(inp, out)))
           IN  /\ RLe(RSub(shown, DebtFinancing(inp, out)), Norm(1, 2))
               /\ RLe(RSub(DebtFinancing(inp, out), shown), Norm(1, 2))

C21_Witness ==
    /\ Calculated
    /\ inp.lvr_pct = FromInt(50)
    /\ IsPositive(out.consultant_costs)
    /\ inp.demolition_cost > 0
    /\ IsPositive(out.equity_required)
    /\ out.equity_required = DebtFinancing(inp, out)
    /\ FromInt(RoundHalfEven(DebtFinancing(inp, out))) # DebtFinancing(inp, out)

(***************************************************************************)
(* The PDF export quota (src/auth.py, lines 275-341).                      *)
(*                                                                         *)
(* One registered user exports from several browser sessions.  Every SQL   *)
(* statement is one step: each function opens its own connection and no    *)
(* transaction spans two statements, so the statements of different        *)
(* sessions interleave.  Dates are day numbers; a month has DaysPerMonth   *)
(* days; None is the NULL of a date column.                                *)
(***************************************************************************)
None == -1

DaysPerMonth == 2

\* The last day of the clock.
MaxDay == 3

\* Exports are counted up to here.
MaxPdfExports == 12

\* Line 324.
PDF_LIMIT_BASIC == 10

\* The browser sessions of the user.
Sessions == {1, 2}

Tiers == {"free", "basic", "pro", "enterprise"}

\* Line 278: today.replace(day=1).
FirstOfMonth(day) == day - (day % DaysPerMonth)

\* Line 288: not reset_date or reset_date < first_of_month.
ResetDue(stored, first) == stored = None \/ stored < first

\* Line 321: pro and enterprise users have unlimited exports.
IsUnlimited(tier) == tier = "pro" \/ tier = "enterprise"

\* The limit test of line 339 with <= in place of <.
CanExportAtLimit(count) == count <= PDF_LIMIT_BASIC

\* Line 339: can_export = current_count < PDF_LIMIT_BASIC.
CanExport(count) == count < PDF_LIMIT_BASIC

\* The calculator is not running while the quota is exercised.
NoCalculatorRun ==
    /\ inp = <<>>
    /\ pc = "off"
    /\ out = NoMetrics
    /\ cash_flows = <<>>
    /\ irr_call = "none"
    /\ monthly_rate = NoReal
    /\ irr_pct = NoReal
    /\ exc = "none"
    /\ cost_items = <<>>
    /\ significant_costs = <<>>

\* A user just registered (lines 92-105: count DEFAULT 0, reset date NULL), with the
\* tier of the User object the sessions hold.
QuotaInit ==
    /\ NoCalculatorRun
    /\ NoAuthCalls
    /\ today = 0
    /\ subscription_tier \in Tiers
    /\ pdf_exports_count = 0
    /\ pdf_exports_reset_date = None
    /\ qpc = [s \in Sessions |-> "idle"]
    /\ first_of_month = [s \in Sessions |-> None]
    /\ reset_date = [s \in Sessions |-> None]
    /\ export_check = [s \in Sessions |-> <<>>]

\* Lines 277-286 of reset_pdf_export_count_if_needed: the date locals and the SELECT.
ResetSelect(s) ==
    /\ first_of_month' = [first_of_month EXCEPT ![s] = FirstOfMonth(today)]
    /\ reset_date' = [reset_date EXCEPT ![s] = pdf_exports_reset_date]

\* Lines 288-294 of reset_pdf_export_count_if_needed: the UPDATE when the reset is due.
ResetUpdate(s) ==
    IF ResetDue(reset_date[s], first_of_month[s])
    THEN /\ pdf_exports_count' = 0
         /\ pdf_exports_reset_date' = first_of_month[s]
    ELSE UNCHANGED <<pdf_exports_count, pdf_exports_reset_date>>

\* check_pdf_export_limit is called (lines 316-328): it returns at once for an
\* unlimited tier, otherwise it enters reset_pdf_export_count_if_needed.
CheckLimit(s) ==
    /\ qpc[s] = "idle"
    /\ IF IsUnlimited(subscription_tier)
       THEN /\ export_check' = [export_check EXCEPT
                                   ![s] = <<TRUE, pdf_exports_count, "Unlimited">>]
            /\ qpc' = [qpc EXCEPT ![s] = "checked"]
            /\ UNCHANGED <<first_of_month, reset_date>>
       ELSE /\ ResetSelect(s)
            /\ qpc' = [qpc EXCEPT ![s] = "check_reset"]
            /\ UNCHANGED export_check
    /\ UNCHANGED <<today, subscription_tier, pdf_exports_count, pdf_exports_reset_date>>
    /\ UNCHANGED <<calcVars, authVars>>

\* The reset inside check_pdf_export_limit completes (lines 288-296).
CheckReset(s) ==
    /\ qpc[s] = "check_reset"
    /\ ResetUpdate(s)
    /\ qpc' = [qpc EXCEPT ![s] = "check_select"]
    /\ UNCHANGED <<today, subscription_tier, first_of_month, reset_date, export_check>>
    /\ UNCHANGED <<calcVars, authVars>>

\* Lines 330-341: the fresh count is read and the answer returned.
CheckSelect(s) ==
    /\ qpc[s] = "check_select"
    /\ export_check' = [export_check EXCEPT
                           ![s] = <<CanExport(pdf_exports_count), pdf_exports_count,
                                    PDF_LIMIT_BASIC>>]
    /\ qpc' = [qpc EXCEPT ![s] = "checked"]
    /\ UNCHANGED <<today, subscription_tier, pdf_exports_count, pdf_exports_reset_date,
                   first_of_month, reset_date>>
    /\ UNCHANGED <<calcVars, authVars>>

\* can_export was True: the export is made and increment_pdf_export_count is called,
\* which enters reset_pdf_export_count_if_needed (lines 298-301).
Export(s) ==
    /\ qpc[s] = "checked"
    /\ export_check[s][1]
    /\ pdf_exports_count < MaxPdfExports
    /\ ResetSelect(s)
    /\ qpc' = [qpc EXCEPT ![s] = "increment_reset"]
    /\ UNCHANGED <<today, subscription_tier, pdf_exports_count, pdf_exports_reset_date,
                   export_check>>
    /\ UNCHANGED <<calcVars, authVars>>

\* can_export was False: nothing is exported and nothing counted.
ExportDenied(s) ==
    /\ qpc[s] = "checked"
    /\ ~export_check[s][1]
    /\ qpc' = [qpc EXCEPT ![s] = "idle"]
    /\ UNCHANGED <<today, subscription_tier, pdf_exports_count, pdf_exports_reset_date,
                   first_of_month, reset_date, export_check>>
    /\ UNCHANGED <<calcVars, authVars>>

\* The reset inside increment_pdf_export_count completes (lines 288-296).
IncrementReset(s) ==
    /\ qpc[s] = "increment_reset"
    /\ ResetUpdate(s)
    /\ qpc' = [qpc EXCEPT ![s] = "increment_update"]
    /\ UNCHANGED <<today, subscription_tier, first_of_month, reset_date, export_check>>
    /\ UNCHANGED <<calcVars, authVars>>

\* Lines 306-314: UPDATE users SET pdf_exports_count = pdf_exports_count + 1.
IncrementUpdate(s) ==
    /\ qpc[s] = "increment_update"
    /\ pdf_exports_count' = pdf_exports_count + 1
    /\ qpc' = [qpc EXCEPT ![s] = "idle"]
    /\ UNCHANGED <<today, subscription_tier, pdf_exports_reset_date, first_of_month,
                   reset_date, export_check>>
    /\ UNCHANGED <<calcVars, authVars>>

\* Midnight.
NextDay ==
    /\ today < MaxDay
    /\ today' = today + 1
    /\ UNCHANGED <<subscription_tier, pdf_exports_count, pdf_exports_reset_date, qpc,
                   first_of_month, reset_date, export_check>>
    /\ UNCHANGED <<calcVars, authVars>>

QuotaNext ==
    \/ \E s \in Sessions : CheckLimit(s)
    \/ \E s \in Sessions : CheckReset(s)
    \/ \E s \in Sessions : CheckSelect(s)
    \/ \E s \in Sessions : Export(s)
    \/ \E s \in Sessions : ExportDenied(s)
    \/ \E s \in Sessions : IncrementReset(s)
    \/ \E s \in Sessions : IncrementUpdate(s)
    \/ NextDay

QuotaSpec == QuotaInit /\ [][QuotaNext]_vars

(***************************************************************************)
(* Claims about the PDF export quota.                                      *)
(***************************************************************************)

\* C22: check_pdf_export_limit answers can_export = True with limit 'Unlimited' for
\* the tiers 'pro' and 'enterprise' whatever the stored count; for every other tier
\* it first makes the due monthly reset, then answers the stored count it reads, the
\* limit 10 and can_export = True exactly when that count is below 10.
C22_ExportLimitAnswer ==
    /\ [](\A s \in Sessions :
             qpc[s] = "checked" =>
                 IF subscription_tier \in {"pro", "enterprise"}
                 THEN export_check[s][1] = TRUE /\ export_check[s][3] = "Unlimited"
                 ELSE /\ export_check[s][3] = 10
                      /\ export_check[s][1] = (export_check[s][2] < 10))
    /\ [][\A s \in Sessions :
             /\ (qpc[s] = "check_select" /\ qpc'[s] = "checked") =>
                    export_check'[s][2] = pdf_exports_count
             /\ (/\ qpc[s] = "check_reset" /\ qpc'[s] = "check_select"
                 /\ (reset_date[s] = None \/ reset_date[s] < first_of_month[s])) =>
                    pdf_exports_count' = 0 /\ pdf_exports_reset_date' = first_of_month[s]
         ]_vars

C22_Witness ==
    /\ subscription_tier = "basic"
    /\ today >= DaysPerMonth
    /\ pdf_exports_reset_date = FirstOfMonth(today)
    /\ \E s \in Sessions : qpc[s] = "checked" /\ export_check[s] = <<FALSE, 10, 10>>

\* C23: a non-pro user whose every export checks the limit first and counts the
\* export only when can_export was True never has more than 10 exports stored,
\* however two or more concurrent sessions interleave.
C23_CountNeverExceedsLimit ==
    subscription_tier \notin {"pro", "enterprise"} => pdf_exports_count <= 10

\* The session completes the UPDATE step of reset_pdf_export_count_if_needed.
ResetCompletes(s) ==
    /\ qpc[s] \in {"check_reset", "increment_reset"}
    /\ qpc'[s] # qpc[s]

\* C24: reset_pdf_export_count_if_needed sets the count to 0 and the reset date to
\* the first day of the current month exactly when the stored reset date is missing
\* or earlier than that day, and otherwise leaves both unchanged; every other step
\* leaves the date alone and never lowers the count.
C24_MonthlyReset ==
    [][\A s \in Sessions :
          IF ResetCompletes(s)
          THEN IF pdf_exports_reset_date = None \/ pdf_exports_reset_date < first_of_month[s]
               THEN pdf_exports_count' = 0 /\ pdf_exports_reset_date' = first_of_month[s]
               ELSE /\ pdf_exports_count' = pdf_exports_count
                    /\ pdf_exports_reset_date' = pdf_exports_reset_date
          ELSE (\A t \in Sessions : ~ResetCompletes(t)) =>
                  /\ pdf_exports_count' >= pdf_exports_count
                  /\ pdf_exports_reset_date' = pdf_exports_reset_date
      ]_vars

(***************************************************************************)
(* Authentication, sessions and subscriptions (src/auth.py).               *)
(*                                                                         *)
(* The clock `now` counts ticks of UTC time, TicksPerDay to the day; the   *)
(* server's local time is now + utc_offset.  Dates are local day numbers,  *)
(* None is NULL / Python's None.  A users row is identified by its         *)
(* position (INTEGER PRIMARY KEY, no row is ever deleted), a session by    *)
(* the position of its row (a fresh uuid4).  Every Streamlit script run    *)
(* starts with auth_page; ret names the last call and what it returned.    *)
(***************************************************************************)
TicksPerDay == 2

\* The last tick of the clock.
MaxNow == 4

\* Sessions are created up to here.
MaxSessions == 1

\* A subscription is extended while it ends at most this many days ahead.
MaxDaysAhead == 1

\* The offsets of the server's time zone from UTC, in ticks.
UtcOffsets == {0, 1}

Emails == {"a", "b"}

\* datetime.datetime.now(): naive local time.
LocalNow(t, off) == t + off

\* datetime.date.today().
Today(t, off) == (t + off) \div TicksPerDay

\* Python's None where a User is expected.
NoUser ==
    [id |-> None, email |-> "", subscription_tier |-> "", subscription_start |-> None,
     subscription_end |-> None]

\* Lines 140-150: the User built from the row with this id.
UserOf(rows, id) ==
    [id |-> id, email |-> rows[id].email, subscription_tier |-> rows[id].subscription_tier,
     subscription_start |-> rows[id].subscription_start,
     subscription_end |-> rows[id].subscription_end]

\* Lines 132-151.
get_user_by_email(email, rows) ==
    IF \E id \in 1..Len(rows) : rows[id].email = email
    THEN UserOf(rows, CHOOSE id \in 1..Len(rows) : rows[id].email = email)
    ELSE NoUser

\* Lines 177-187.
verify_password(email, password, rows) ==
    \E id \in 1..Len(rows) : rows[id].email = email /\ rows[id].password = password

\* The INSERT of create_user never meets the UNIQUE constraint.
NoUniqueConstraint(email, rows) == FALSE

\* Line 94, email TEXT UNIQUE: the INSERT of lines 162-168 raises IntegrityError.
IntegrityError(email, rows) == \E id \in 1..Len(rows) : rows[id].email = email

\* Lines 158-168: the row create_user inserts.
NewUserRow(email, password, admin, day) ==
    IF admin
    THEN [email |-> email, password |-> password, subscription_tier |-> "enterprise",
          subscription_start |-> day, subscription_end |-> day + 365]
    ELSE [email |-> email, password |-> password, subscription_tier |-> "free",
          subscription_start |-> None, subscription_end |-> None]

\* Line 214: s.expires_at > CURRENT_TIMESTAMP, the stored local time against UTC.
SessionLive(expires_at, t, off) == expires_at > t

\* Lines 203-231.
get_user_from_session(session_id, sess, rows, t, off) ==
    IF session_id = None THEN NoUser
    ELSE IF /\ session_id \in 1..Len(sess)
            /\ SessionLive(sess[session_id].expires_at, t, off)
            /\ sess[session_id].user_id \in 1..Len(rows)
         THEN UserOf(rows, sess[session_id].user_id)
         ELSE NoUser

\* update_subscription always counting from today.
SubscriptionPeriodStartToday(current_end, day) == day

\* Lines 243-247: the day the new period is counted from.
SubscriptionPeriodStart(current_end, day) ==
    IF current_end # None /\ current_end > day THEN current_end ELSE day

\* Lines 233-259: the row after update_subscription.
UpdatedRow(row, tier, months, day) ==
    [row EXCEPT !.subscription_tier = tier,
                !.subscription_start = day,
                !.subscription_end = SubscriptionPeriodStart(row.subscription_end, day)
                                        + 30 * months]

\* check_subscription_active without the comparison of the end date.
check_subscription_active_any_end(user, day) ==
    /\ user.id # None
    /\ user.subscription_tier # "free"
    /\ user.subscription_end # None

\* Lines 261-273.
check_subscription_active(user, day) ==
    /\ user.id # None
    /\ user.subscription_tier # "free"
    /\ user.subscription_end # None
    /\ user.subscription_end >= day

\* The state with the key set to the value.
With(state, key, value) ==
    [k \in DOMAIN state \cup {key} |-> IF k = key THEN value ELSE state[k]]

\* del st.session_state[key].
Without(state, key) == [k \in DOMAIN state \ {key} |-> state[k]]

\* setdefault: lines 772-782.
WithDefault(state, key, value) == IF key \in DOMAIN state THEN state ELSE With(state, key, value)

EmptyState == [k \in {} |-> None]

\* Lines 906-928.
check_access_level(state, day) ==
    IF "temp_access_level" \in DOMAIN state THEN state["temp_access_level"]
    ELSE IF "trial_mode" \in DOMAIN state /\ state["trial_mode"] THEN "trial"
    ELSE IF "user" \notin DOMAIN state THEN "none"
    ELSE IF \/ state["user"].subscription_tier = "free"
            \/ ~check_subscription_active(state["user"], day)
         THEN "free"
         ELSE state["user"].subscription_tier

\* Lines 77-119: the tables after init_auth_db and the error it ends with.  On a
\* database without a users table the SELECT of line 84 raises OperationalError and
\* so does the ALTER TABLE of line 87 inside the handler, which nothing catches.
init_auth_db(ut, st) ==
    IF ut = "absent"
    THEN [users_table |-> ut, sessions_table |-> st, exc |-> "OperationalError"]
    ELSE [users_table |-> "current", sessions_table |-> TRUE, exc |-> "none"]

\* logout deleting the login keys only.
logout_login_keys_only(state) == Without(Without(state, "user"), "session_id")

\* Lines 835-836: every key of the session state is deleted.
logout(state) == EmptyState

\* What a call leaves in ret.
Returned(fn, arg, value) == [fn |-> fn, arg |-> arg, value |-> value, exc |-> "none"]

Raised(fn, arg, exc_name) == [fn |-> fn, arg |-> arg, value |-> None, exc |-> exc_name]

\* The users a database of earlier runs holds: none, or user "a" on the free tier or
\* on a paid tier whose period ends on the first or the second day of the clock.
PersistedUsers ==
    {<<>>}
    \cup {<<NewUserRow("a", "pw", FALSE, 0)>>}
    \cup {<<[NewUserRow("a", "pw", FALSE, 0) EXCEPT !.subscription_tier = tier,
                                                     !.subscription_start = 0,
                                                     !.subscription_end = end]>> :
             tier \in {"basic", "pro"}, end \in {1, 2}}

\* The database file as the server finds it (absent, of the version before the
\* export columns, or current) and a browser session that has just opened the page.
AuthInit ==
    /\ NoCalculatorRun
    /\ NoQuotaCalls
    /\ now = TicksPerDay
    /\ utc_offset \in UtcOffsets
    /\ \/ users_table = "absent" /\ sessions_table = FALSE /\ users = <<>>
       \/ users_table = "legacy" /\ sessions_table = TRUE /\ users \in PersistedUsers
       \/ users_table = "current" /\ sessions_table = TRUE /\ users = <<>>
    /\ sessions = <<>>
    /\ session_state = EmptyState
    /\ ret = Returned("start", <<>>, None)

\* The script run got past auth_page without a logged-in user: the forms are shown.
FormsShown == ret.fn = "auth_page" /\ ret.exc = "none" /\ ret.value = FALSE

\* The script run is past auth_page.
PageShown == ret.fn = "auth_page" /\ ret.exc = "none"

\* Lines 761-831: a script run starts.
AuthPage ==
    LET db == init_auth_db(users_table, sessions_table)
        user == IF "session_id" \in DOMAIN session_state
                THEN get_user_from_session(session_state["session_id"], sessions, users,
                                           now, utc_offset)
                ELSE NoUser
    IN  /\ IF db.exc # "none"
           THEN /\ ret' = Raised("auth_page", <<>>, db.exc)
                /\ UNCHANGED <<users_table, sessions_table, session_state>>
           ELSE /\ users_table' = db.users_table
                /\ sessions_table' = db.sessions_table
                /\ IF user.id # None
                   THEN /\ session_state' = With(session_state, "user", user)
                        /\ ret' = Returned("auth_page", <<>>, TRUE)
                   ELSE /\ session_state' =
                              WithDefault(WithDefault(WithDefault(session_state,
                                  "show_register", FALSE), "show_payment", FALSE),
                                  "show_contact_form", FALSE)
                        /\ ret' = Returned("auth_page", <<>>, FALSE)
        /\ UNCHANGED <<now, utc_offset, users, sessions>>
        /\ UNCHANGED <<calcVars, quotaVars>>

\* Lines 815-824: the two buttons that switch between the login and register forms.
SwitchForm ==
    /\ FormsShown
    /\ session_state' = With(session_state, "show_register", ~session_state["show_register"])
    /\ ret' = Returned("switch_form", <<>>, None)
    /\ UNCHANGED <<now, utc_offset, users_table, sessions_table, users, sessions>>
    /\ UNCHANGED <<calcVars, quotaVars>>

\* Lines 360-377: the login form is submitted.
LoginSubmit(email, password, remember_me) ==
    /\ FormsShown
    /\ ~session_state["show_register"]
    /\ IF verify_password(email, password, users)
       THEN LET user == get_user_by_email(email, users)
                expiry_days == IF remember_me THEN 90 ELSE 1
            IN  /\ Len(sessions) < MaxSessions
                /\ sessions' = Append(sessions,
                       [user_id |-> user.id,
                        expires_at |-> LocalNow(now, utc_offset) + expiry_days * TicksPerDay])
                /\ session_state' = With(With(session_state, "session_id", Len(sessions) + 1),
                                         "user", user)
                /\ ret' = Returned("login_form", <<>>, TRUE)
       ELSE /\ ret' = Returned("login_form", <<>>, FALSE)
            /\ UNCHANGED <<sessions, session_state>>
    /\ UNCHANGED <<now, utc_offset, users_table, sessions_table, users>>
    /\ UNCHANGED <<calcVars, quotaVars>>

\* Lines 401-430 with create_user, lines 153-175: the register form is submitted
\* with every field filled in.
RegisterSubmit(email, admin) ==
    /\ FormsShown
    /\ session_state["show_register"]
    /\ IF IntegrityError(email, users)
       THEN /\ ret' = Returned("create_user", <<email, admin>>, None)
            /\ UNCHANGED <<users, session_state>>
       ELSE /\ users' = Append(users, NewUserRow(email, "pw", admin, Today(now, utc_offset)))
            /\ session_state' = With(session_state, "show_register", FALSE)
            /\ ret' = Returned("create_user", <<email, admin>>, Len(users) + 1)
    /\ UNCHANGED <<now, utc_offset, users_table, sessions_table, sessions>>
    /\ UNCHANGED <<calcVars, quotaVars>>

\* Lines 826-829: "Try limited version".
TryLimited ==
    /\ FormsShown
    /\ session_state' = With(session_state, "trial_mode", TRUE)
    /\ ret' = Returned("try_limited", <<>>, None)
    /\ UNCHANGED <<now, utc_offset, users_table, sessions_table, users, sessions>>
    /\ UNCHANGED <<calcVars, quotaVars>>

\* Lines 610-617 with update_subscription, lines 233-259: a payment completes.
Payment(tier, months) ==
    /\ PageShown
    /\ "user" \in DOMAIN session_state
    /\ LET id  == session_state["user"].id
           day == Today(now, utc_offset)
       IN  /\ users[id].subscription_end # None =>
                  \/ users[id].subscription_end <= day + MaxDaysAhead
                  \/ users[id].subscription_tier = "enterprise"
           /\ users' = [users EXCEPT ![id] = UpdatedRow(users[id], tier, months, day)]
           /\ session_state' = With(session_state, "user",
                                    get_user_by_email(session_state["user"].email, users'))
           /\ ret' = Returned("update_subscription", <<id, tier, months>>, None)
    /\ UNCHANGED <<now, utc_offset, users_table, sessions_table, sessions>>
    /\ UNCHANGED <<calcVars, quotaVars>>

\* Lines 851-852: the account registered with the special access code.
IsAdminAccount(user, day) ==
    /\ user.subscription_tier = "enterprise"
    /\ check_subscription_active(user, day)
    /\ user.subscription_end - day >= 300

\* Lines 890-901: the admin testing menu.
AdminMenu(level) ==
    /\ PageShown
    /\ "user" \in DOMAIN session_state
    /\ IsAdminAccount(session_state["user"], Today(now, utc_offset))
    /\ session_state' = IF level = "reset" THEN Without(session_state, "temp_access_level")
                        ELSE With(session_state, "temp_access_level", level)
    /\ ret' = Returned("admin_menu", <<level>>, None)
    /\ UNCHANGED <<now, utc_offset, users_table, sessions_table, users, sessions>>
    /\ UNCHANGED <<calcVars, quotaVars>>

\* Lines 833-837 behind the button of lines 903-904.
Logout ==
    /\ PageShown
    /\ "user" \in DOMAIN session_state
    /\ session_state' = logout(session_state)
    /\ ret' = Returned("logout", <<>>, None)
    /\ UNCHANGED <<now, utc_offset, users_table, sessions_table, users, sessions>>
    /\ UNCHANGED <<calcVars, quotaVars>>

\* Time passes.
Tick ==
    /\ now < MaxNow
    /\ now' = now + 1
    /\ ret' = Returned("tick", <<>>, None)
    /\ UNCHANGED <<utc_offset, users_table, sessions_table, users, sessions, session_state>>
    /\ UNCHANGED <<calcVars, quotaVars>>

AuthNext ==
    \/ AuthPage
    \/ SwitchForm
    \/ \E email \in Emails, password \in {"pw", "bad"}, remember_me \in BOOLEAN :
          LoginSubmit(email, password, remember_me)
    \/ \E email \in Emails, admin \in BOOLEAN : RegisterSubmit(email, admin)
    \/ TryLimited
    \/ \E tier \in {"basic", "pro"}, months \in {1, 12} : Payment(tier, months)
    \/ \E level \in {"basic", "pro", "enterprise", "reset"} : AdminMenu(level)
    \/ Logout
    \/ Tick

AuthSpec == AuthInit /\ [][AuthNext]_vars

(***************************************************************************)
(* Claims about authentication, sessions and subscriptions.                *)
(***************************************************************************)

\* C25: init_auth_db initialises the database from any starting state: without a
\* users table it completes without error and leaves a users table with the export
\* columns and a sessions table; on an initialised database it changes nothing.
C25_InitAuthDbFromAnyState ==
    [][ret'.fn = "auth_page" =>
          /\ ret'.exc = "none"
          /\ users_table' = "current"
          /\ sessions_table' = TRUE
          /\ (users_table = "current" /\ sessions_table = TRUE) =>
                 UNCHANGED <<users_table, sessions_table, users, sessions>>
      ]_vars

\* The key is in the session state.
Has(key) == key \in DOMAIN session_state

\* The access level of the current state.
AccessLevel == check_access_level(session_state, Today(now, utc_offset))

\* The subscription of the user in the session state has no end date or ended
\* before today.
SubscriptionOver ==
    \/ session_state["user"].subscription_end = None
    \/ session_state["user"].subscription_end < Today(now, utc_offset)

\* C26: check_access_level returns temp_access_level when set; otherwise 'trial' in
\* trial mode; otherwise 'none' without a user; otherwise 'free' for the free tier or
\* a subscription that is not active (no end date, or ended before today); otherwise
\* the user's tier.  Without temp_access_level no paid tier is returned for a user
\* whose subscription has expired.
C26_AccessLevelPriority ==
    /\ Has("temp_access_level") => AccessLevel = session_state["temp_access_level"]
    /\ (~Has("temp_access_level") /\ Has("trial_mode")) => AccessLevel = "trial"
    /\ (~Has("temp_access_level") /\ ~Has("trial_mode") /\ ~Has("user")) =>
           AccessLevel = "none"
    /\ (~Has("temp_access_level") /\ ~Has("trial_mode") /\ Has("user")) =>
           AccessLevel = IF session_state["user"].subscription_tier = "free" \/ SubscriptionOver
                         THEN "free"
                         ELSE session_state["user"].subscription_tier
    /\ (~Has("temp_access_level") /\ AccessLevel \in {"basic", "pro", "enterprise"}) =>
           Has("user") /\ ~SubscriptionOver

C26_Witness ==
    /\ ~Has("temp_access_level")
    /\ ~Has("trial_mode")
    /\ Has("user")
    /\ session_state["user"].subscription_tier = "pro"
    /\ session_state["user"].subscription_end # None
    /\ session_state["user"].subscription_end < Today(now, utc_offset)
    /\ AccessLevel = "free"

\* C27: create_user with an email already registered returns None and leaves the
\* users table unchanged; otherwise it returns the new user's id, the new row having
\* tier 'free', or 'enterprise' with a 365-day subscription from today when
\* admin=True; no two users ever share an email.
C27_CreateUser ==
    /\ [](\A i, j \in 1..Len(users) : users[i].email = users[j].email => i = j)
    /\ [][ret'.fn = "create_user" =>
             LET email == ret'.arg[1]
                 admin == ret'.arg[2]
                 id    == Len(users) + 1
             IN  IF \E k \in 1..Len(users) : users[k].email = email
                 THEN ret'.value = None /\ users' = users
                 ELSE /\ ret'.value = id
                      /\ Len(users') = id
                      /\ SubSeq(users', 1, Len(users)) = users
                      /\ users'[id].email = email
                      /\ IF admin
                         THEN /\ users'[id].subscription_tier = "enterprise"
                              /\ users'[id].subscription_start = Today(now, utc_offset)
                              /\ users'[id].subscription_end = Today(now, utc_offset) + 365
                         ELSE users'[id].subscription_tier = "free"
         ]_vars

C27_Witness ==
    /\ ret.fn = "create_user"
    /\ ret.value = None
    /\ Len(users) = 2
    /\ \E k \in 1..Len(users) : users[k].subscription_tier = "enterprise"
    /\ \E k \in 1..Len(users) : users[k].subscription_tier = "free"

\* The user a session id resolves to in the current state.
Resolves(session_id) == get_user_from_session(session_id, sessions, users, now, utc_offset)

\* C28: get_user_from_session returns a user only for a session id created by
\* create_session whose expires_at is still in the future, None for an empty or
\* unknown id, and None for ever once the expiry time has passed; auth_page returns
\* True only when the session id of the session state resolves to such a user.
C28_SessionResolution ==
    /\ [](/\ Resolves(None) = NoUser
          /\ \A id \in 1..(MaxSessions + 1) :
                Resolves(id) # NoUser =>
                    /\ id \in 1..Len(sessions)
                    /\ sessions[id].expires_at > LocalNow(now, utc_offset))
    /\ [][\A id \in 1..Len(sessions) :
             sessions[id].expires_at <= LocalNow(now, utc_offset) =>
                 sessions'[id].expires_at <= LocalNow(now', utc_offset')]_vars
    /\ []((ret.fn = "auth_page" /\ ret.exc = "none" /\ ret.value = TRUE) =>
             /\ Has("session_id")
             /\ Resolves(session_state["session_id"]) # NoUser
             /\ sessions[session_state["session_id"]].expires_at > LocalNow(now, utc_offset))

\* C29: update_subscription(user_id, tier, months) with months >= 1 never moves
\* subscription_end earlier: the new end is the current end plus 30 x months days
\* when the current end is after today and today plus 30 x months days otherwise;
\* subscription_start becomes today and the tier the given tier, and afterwards
\* check_subscription_active is True for a tier other than 'free'.
C29_UpdateSubscription ==
    [][ret'.fn = "update_subscription" =>
          LET user_id == ret'.arg[1]
              tier    == ret'.arg[2]
              months  == ret'.arg[3]
              day     == Today(now, utc_offset)
              old_end == users[user_id].subscription_end
              row     == users'[user_id]
          IN  /\ months >= 1
              /\ old_end # None => row.subscription_end >= old_end
              /\ row.subscription_end =
                     IF old_end # None /\ old_end > day
                     THEN old_end + 30 * months
                     ELSE day + 30 * months
              /\ row.subscription_start = day
              /\ row.subscription_tier = tier
              /\ tier # "free" =>
                     check_subscription_active(UserOf(users', user_id),
                                               Today(now', utc_offset'))]_vars

\* A twelve-month payment has extended a period that was still running.
C29_Witness ==
    /\ ret.fn = "update_subscription"
    /\ ret.arg[3] = 12
    /\ users[ret.arg[1]].subscription_end > Today(now, utc_offset) + 360

\* C30: logout removes every key of the session state, so that immediately
\* afterwards check_access_level returns 'none' and auth_page returns False, and
\* it leaves the rows of the users and sessions tables unchanged.
C30_LogoutClearsSessionState ==
    /\ [][ret'.fn = "logout" =>
             /\ DOMAIN session_state' = {}
             /\ check_access_level(session_state', Today(now', utc_offset')) = "none"
             /\ users' = users
             /\ sessions' = sessions]_vars
    /\ [][(ret.fn = "logout" /\ ret'.fn = "auth_page") =>
             ret'.exc = "none" /\ ret'.value = FALSE]_vars

\* A user has logged out while the session row of the login is still live.
C30_Witness ==
    /\ ret.fn = "logout"
    /\ session_state = EmptyState
    /\ Len(users) >= 1
    /\ Len(sessions) >= 1
    /\ Resolves(1) # NoUser
====
